---------------------------- MODULE Spec2Model ----------------------------
(***************************************************************************)
(* Bulk compression pipeline of bulk-squoosh: the BulkCompress component   *)
(* (src/unnamed/part_000, second module, lines 57-667).  The downloadAll   *)
(* of the revision in src/client/lazy-app/BulkCompress/index.tsx is        *)
(* modelled next to the one of part_000.                                   *)
(* The App shell that shows the component                                  *)
(* (src/client/initial-app/App/index.tsx) is modelled in its own section.  *)
(*                                                                         *)
(* The component is modelled at the level of its handlers.  JavaScript is  *)
(* run-to-completion, so one action is one handler, or one continuation of *)
(* the async function processFiles between two awaits.  A setState call is *)
(* applied in program order; the callback of setState runs after the       *)
(* update it was queued with.  Array indices are 1-based here: index i of  *)
(* the model is index i-1 of the code.                                     *)
(*                                                                         *)
(* The handlers are the interface of the core: add-files, clear-all and    *)
(* the settings handlers may be invoked whenever the component is mounted  *)
(* (spec sections 5 and 6: intents arrive "at any time, including while a  *)
(* run is in progress").  The `disabled` attributes that render() puts on  *)
(* the buttons belong to the presentation layer and are not modelled.      *)
(*                                                                         *)
(* An optional property of a JavaScript object is a sequence of length 0   *)
(* (absent) or 1 (present).                                                *)
(***************************************************************************)
EXTENDS Integers, Sequences, FiniteSets, TLC

\* ------------------------------------------------------------------ bounds
\* Number of distinct File objects that exist over a behaviour.
MaxFiles == 3
\* Largest length of props.files at construction.
MaxInitFiles == 3
\* Largest number of files chosen in one file-picker change event.
MaxPick == 2
\* Largest number of files dropped on the page or picked on the intro page at once.
MaxDrop == 2
\* Largest number of entries of the session history.
MaxEntries == 4
\* Largest number of BulkCompress instances the shell constructs.
MaxInstances == 2

VARIABLES
    processedFiles,  \* state.processedFiles: the File Record Store
    processing,      \* state.processing
    selectedFormat,  \* state.selectedFormat
    resize,          \* state.resize (the fields the pipeline's control flow reads)
    runs,            \* activations of processFiles, in the order they were started
    urlsCreated,     \* number of URL.createObjectURL calls so far
    revoked,         \* handles passed to URL.revokeObjectURL
    nextFile,        \* identity of the next File object handed to the component
    phase,           \* "constructed", "mounted" or "unmounted"
    call,            \* a part of the pipeline examined by itself: its arguments and results
    app              \* the App shell around the component: its state and the session history

vars == <<processedFiles, processing, selectedFormat, resize, runs, urlsCreated, revoked, nextFile,
          phase, call, app>>

\* ------------------------------------------------------------ data model
Statuses == {"pending", "processing", "done", "error"}

\* interface ProcessedFile: a record just created from a File.
NewRecord(f) ==
    [slot |-> "object", original |-> <<f>>, status |-> "pending",
     resultBlob |-> <<>>, resultUrl |-> <<>>, resultSize |-> <<>>,
     error |-> <<>>, outputName |-> <<>>]

\* An array element that is not an object: a hole of a sparse array, or undefined.
NonObject(kind) ==
    [slot |-> kind, original |-> <<>>, status |-> "",
     resultBlob |-> <<>>, resultUrl |-> <<>>, resultSize |-> <<>>,
     error |-> <<>>, outputName |-> <<>>]

\* {...e}: the own properties of e; spreading undefined gives the empty object.
Spread(e) == IF e.slot = "object" THEN e ELSE NonObject("object")

\* [...arr]: iteration yields undefined for a hole.
SpreadArray(arr) ==
    [k \in 1..Len(arr) |-> IF arr[k].slot = "hole" THEN NonObject("undefined") ELSE arr[k]]

\* arr[i]: undefined for a hole and beyond the length.
At(arr, i) ==
    IF i \in 1..Len(arr) /\ arr[i].slot = "object" THEN arr[i] ELSE NonObject("undefined")

\* arr[i] = rec: a write beyond the length leaves holes in between.
SetAt(arr, i, rec) ==
    [k \in 1..(IF i > Len(arr) THEN i ELSE Len(arr)) |->
        IF k = i THEN rec
        ELSE IF k <= Len(arr) THEN arr[k]
        ELSE NonObject("hole")]


\* ------------------------------------------------------- store updates
\* updateFileStatus(index, status): setState with [...prev], one index replaced.
updateFileStatus(files, index, status) ==
    SetAt(SpreadArray(files), index, [Spread(At(files, index)) EXCEPT !.status = status])

\* The setState updater of the success path of processFiles (lines 171-182).
WriteDone(files, i, blob, url, outputName) ==
    SetAt(SpreadArray(files), i,
          [Spread(At(files, i)) EXCEPT !.status = "done",
                                       !.resultBlob = <<blob>>,
                                       !.resultUrl = <<url>>,
                                       !.resultSize = <<blob.size>>,
                                       !.outputName = <<outputName>>])

\* The setState updater of the catch block of processFiles (lines 185-193).
WriteError(files, i, message) ==
    SetAt(SpreadArray(files), i,
          [Spread(At(files, i)) EXCEPT !.status = "error", !.error = <<message>>])

\* `${output.prefix}${originalName}${output.suffix}.${ext}` with the settings the
\* run captured; prefix and suffix are the constructor's defaults.
OutputName(file, cfg) ==
    [prefix |-> cfg.output.prefix, originalName |-> file,
     suffix |-> cfg.output.suffix, format |-> cfg.selectedFormat]

\* String(e) for the failure a catch block of processFiles receives.
DecodeErrorMessage == "Error: Could not decode image"
ResizeErrorMessage == "resize rejected"
EncodeErrorMessage == "encode rejected"

\* --------------------------------------------------------- processFiles
\* The settings the constructor sets (lines 127-140).
DefaultConfig ==
    [selectedFormat |-> "mozJPEG", resize |-> [enabled |-> FALSE],
     output |-> [prefix |-> "", suffix |-> ""]]

\* The settings destructured from this.state at line 154.
ConfigSnapshot ==
    [DefaultConfig EXCEPT !.selectedFormat = selectedFormat, !.resize = resize]

\* An activation that has ended: its locals are gone, how it ended remains.
Finished(how) ==
    [snap |-> <<>>, cfg |-> DefaultConfig, i |-> 0, pc |-> how, signalAborted |-> FALSE]

Awaiting == {"decode", "resize", "encode"}

\* The loop walking the captured array from its end: it stops at the last index at
\* which it does not `continue`.
NextStopFromEnd(snap, from) ==
    IF \E k \in from..Len(snap) : snap[k].slot # "object" \/ snap[k].status = "pending"
    THEN CHOOSE k \in from..Len(snap) :
            /\ snap[k].slot # "object" \/ snap[k].status = "pending"
            /\ \A j \in (k + 1)..Len(snap) : snap[j].slot = "object" /\ snap[j].status # "pending"
    ELSE Len(snap) + 1

\* The for loop from index `from`: the first index of the captured array at which
\* the loop does not `continue`, or Len+1 when the loop runs off the end.
NextStop(snap, from) ==
    IF \E k \in from..Len(snap) : snap[k].slot # "object" \/ snap[k].status = "pending"
    THEN CHOOSE k \in from..Len(snap) :
            /\ snap[k].slot # "object" \/ snap[k].status = "pending"
            /\ \A j \in from..(k - 1) : snap[j].slot = "object" /\ snap[j].status # "pending"
    ELSE Len(snap) + 1

\* The run after the loop has advanced from index `from` to its next await or exit:
\*   off the end      -> the function returns (line 196 executes);
\*   processedFiles[i] is undefined -> fileData.status throws a TypeError outside
\*                       the try block, the promise rejects, line 196 never runs;
\*   a pending record -> line 160, then compressFile suspends in builtinDecode.
WalkRun(run, from) ==
    LET k == NextStop(run.snap, from) IN
    IF k > Len(run.snap) THEN Finished("returned")
    ELSE IF run.snap[k].slot # "object" THEN Finished("thrown")
    ELSE [run EXCEPT !.i = k, !.pc = "decode", !.signalAborted = FALSE]

\* The store after the same stretch of the loop.
WalkFiles(files, run, from) ==
    LET r == WalkRun(run, from) IN
    IF r.pc = "decode" THEN updateFileStatus(files, r.i, "processing") ELSE files

\* state.processing after the same stretch: line 196 only when the loop ends.
WalkProcessing(proc, run, from) ==
    IF WalkRun(run, from).pc = "returned" THEN FALSE ELSE proc

\* A fresh activation: line 154 captures the array and the settings.
NewRun(files) ==
    [snap |-> files, cfg |-> ConfigSnapshot, i |-> 0, pc |-> "start", signalAborted |-> FALSE]

\* processFiles() without line 151.
processFilesUnguarded(files, proc) ==
    /\ processedFiles' = WalkFiles(files, NewRun(files), 1)
    /\ processing' = WalkProcessing(TRUE, NewRun(files), 1)
    /\ runs' = Append(runs, WalkRun(NewRun(files), 1))

\* processFiles() up to its first await, as a relation between the values before
\* and the variables after.  Line 151 is the single-flight guard.
processFiles(files, proc) ==
    IF proc
    THEN /\ processedFiles' = files
         /\ processing' = proc
         /\ runs' = runs
    ELSE /\ processedFiles' = WalkFiles(files, NewRun(files), 1)
         /\ processing' = WalkProcessing(TRUE, NewRun(files), 1)
         /\ runs' = Append(runs, WalkRun(NewRun(files), 1))


\* No part of the pipeline is examined by itself.
NoCall == [op |-> "none"]

\* The component taken on its own, without the App shell around it.
NoApp == [shell |-> "none"]

\* ------------------------------------------------------------ lifecycle
\* The constructor: one pending record per file of props.files, default settings.
Init ==
    \E n \in 0..MaxInitFiles :
        /\ processedFiles = [k \in 1..n |-> NewRecord(k)]
        /\ nextFile = n + 1
        /\ processing = FALSE
        /\ selectedFormat = DefaultConfig.selectedFormat
        /\ resize = DefaultConfig.resize
        /\ runs = <<>>
        /\ urlsCreated = 0
        /\ revoked = {}
        /\ phase = "constructed"
        /\ call = NoCall
        /\ app = NoApp

componentDidMount ==
    /\ phase = "constructed"
    /\ phase' = "mounted"
    /\ IF Len(processedFiles) > 0
       THEN processFiles(processedFiles, processing)
       ELSE UNCHANGED <<processedFiles, processing, runs>>
    /\ UNCHANGED <<app, call, selectedFormat, resize, urlsCreated, revoked, nextFile>>

\* The App shell stops rendering the component (it defines no componentWillUnmount).
\* Suspended runs keep going; their setState calls still update the pending state.
Unmount ==
    /\ phase = "mounted"
    /\ phase' = "unmounted"
    /\ UNCHANGED <<app, call, processedFiles, processing, selectedFormat, resize, runs, urlsCreated, revoked, nextFile>>

\* ------------------------------------------------------------- handlers
\* The change event with the new records put in front of the existing ones.
onFileChangePrepends(n) ==
    /\ phase = "mounted"
    /\ nextFile + n - 1 <= MaxFiles
    /\ LET newFiles == [k \in 1..n |-> NewRecord(nextFile + k - 1)]
       IN  processFiles(newFiles \o SpreadArray(processedFiles), processing)
    /\ nextFile' = nextFile + n
    /\ UNCHANGED <<app, call, selectedFormat, resize, urlsCreated, revoked, phase>>

\* The change event of the file input with n >= 1 files: append, then the
\* setState callback calls processFiles on the updated state.
onFileChange(n) ==
    /\ phase = "mounted"
    /\ nextFile + n - 1 <= MaxFiles
    /\ LET newFiles == [k \in 1..n |-> NewRecord(nextFile + k - 1)]
       IN  processFiles(SpreadArray(processedFiles) \o newFiles, processing)
    /\ nextFile' = nextFile + n
    /\ UNCHANGED <<app, call, selectedFormat, resize, urlsCreated, revoked, phase>>

\* forEach skips the holes of a sparse array but calls back for an undefined
\* element, where f.resultUrl throws a TypeError that ends the handler before
\* its setState.
FirstUndefined(files) ==
    IF \E k \in 1..Len(files) : files[k].slot = "undefined"
    THEN CHOOSE k \in 1..Len(files) :
            /\ files[k].slot = "undefined"
            /\ \A j \in 1..(k - 1) : files[j].slot # "undefined"
    ELSE Len(files) + 1

clearAll ==
    /\ phase = "mounted"
    /\ LET stop == FirstUndefined(processedFiles) IN
       /\ revoked' = revoked \cup
              {processedFiles[k].resultUrl[1] :
                  k \in {j \in 1..(stop - 1) : processedFiles[j].resultUrl # <<>>}}
       /\ IF stop > Len(processedFiles)
          THEN processedFiles' = <<>> /\ processing' = FALSE
          ELSE UNCHANGED <<processedFiles, processing>>
    /\ UNCHANGED <<app, call, selectedFormat, resize, runs, urlsCreated, nextFile, phase>>

\* The formats offered for the change event of the format select (two of the five
\* formatOptions, the default among them).
Formats == {"mozJPEG", "webP"}

\* The change event of the format select: target.value is the chosen format.
onFormatChange(format) ==
    /\ phase = "mounted"
    /\ selectedFormat' = format
    /\ UNCHANGED <<app, call, processedFiles, processing, resize, runs, urlsCreated, revoked, nextFile, phase>>

\* The change event of the resize checkbox: target.checked is the toggled value.
onResizeEnableChange ==
    /\ phase = "mounted"
    /\ resize' = [resize EXCEPT !.enabled = ~resize.enabled]
    /\ UNCHANGED <<app, call, selectedFormat, processedFiles, processing, runs, urlsCreated, revoked, nextFile, phase>>

\* ------------------------------------------- continuations of processFiles
\* The file a suspended run is compressing: fileData.original of the captured array.
FileOf(run) == run.snap[run.i].original

\* The loop going on with line 154 moved into its body: the settings are read
\* again for every record.
ContinueRunRereads(r, files) ==
    /\ processedFiles' = WalkFiles(files, runs[r], runs[r].i + 1)
    /\ processing' = WalkProcessing(processing, runs[r], runs[r].i + 1)
    /\ runs' = [runs EXCEPT ![r] = WalkRun([runs[r] EXCEPT !.cfg = ConfigSnapshot], runs[r].i + 1)]

\* The loop goes on after the setState of index run.i has produced `files`.
ContinueRun(r, files) ==
    /\ processedFiles' = WalkFiles(files, runs[r], runs[r].i + 1)
    /\ processing' = WalkProcessing(processing, runs[r], runs[r].i + 1)
    /\ runs' = [runs EXCEPT ![r] = WalkRun(runs[r], runs[r].i + 1)]

\* builtinDecode resolves: compressFile goes on to resize (if enabled) or encode.
DecodeResolved(r) ==
    /\ runs[r].pc = "decode"
    /\ FileOf(runs[r]) # <<>>
    /\ runs' = [runs EXCEPT ![r].pc = IF runs[r].cfg.resize.enabled THEN "resize" ELSE "encode"]
    /\ UNCHANGED <<app, call, processedFiles, processing, selectedFormat, resize, urlsCreated, revoked, nextFile, phase>>

\* builtinDecode rejects and nothing catches it: processFiles ends there.
DecodeRejectedAborts(r) ==
    /\ runs[r].pc = "decode"
    /\ runs' = [runs EXCEPT ![r] = Finished("thrown")]
    /\ UNCHANGED <<app, call, processedFiles, processing, selectedFormat, resize, urlsCreated, revoked, nextFile, phase>>

\* builtinDecode rejects and compressFile goes on to encode a placeholder image.
DecodeRejectedSubstitutes(r) ==
    /\ runs[r].pc = "decode"
    /\ runs' = [runs EXCEPT ![r].pc = "encode"]
    /\ UNCHANGED <<app, call, processedFiles, processing, selectedFormat, resize, urlsCreated, revoked, nextFile, phase>>

\* builtinDecode rejects: compressFile throws Error('Could not decode image').
DecodeRejected(r) ==
    /\ runs[r].pc = "decode"
    /\ ContinueRun(r, WriteError(processedFiles, runs[r].i, DecodeErrorMessage))
    /\ UNCHANGED <<app, call, selectedFormat, resize, urlsCreated, revoked, nextFile, phase>>

ResizeResolved(r) ==
    /\ runs[r].pc = "resize"
    /\ runs' = [runs EXCEPT ![r].pc = "encode"]
    /\ UNCHANGED <<app, call, processedFiles, processing, selectedFormat, resize, urlsCreated, revoked, nextFile, phase>>

ResizeRejected(r) ==
    /\ runs[r].pc = "resize"
    /\ ContinueRun(r, WriteError(processedFiles, runs[r].i, ResizeErrorMessage))
    /\ UNCHANGED <<app, call, selectedFormat, resize, urlsCreated, revoked, nextFile, phase>>

\* The byte size of the encoder's output for a file: 0 bytes for the first file,
\* more for the later ones.
EncodedSize(file) == file - 1

\* encoder.encode resolves: the Blob, its object URL and the output name are
\* written to index i of the current store.
EncodeResolved(r) ==
    /\ runs[r].pc = "encode"
    /\ LET file == FileOf(runs[r])[1]
           blob == [source |-> file, size |-> EncodedSize(file), format |-> runs[r].cfg.selectedFormat]
       IN  ContinueRun(r, WriteDone(processedFiles, runs[r].i, blob, urlsCreated + 1,
                                    OutputName(file, runs[r].cfg)))
    /\ urlsCreated' = urlsCreated + 1
    /\ UNCHANGED <<app, call, selectedFormat, resize, revoked, nextFile, phase>>

EncodeRejected(r) ==
    /\ runs[r].pc = "encode"
    /\ ContinueRun(r, WriteError(processedFiles, runs[r].i, EncodeErrorMessage))
    /\ UNCHANGED <<app, call, selectedFormat, resize, urlsCreated, revoked, nextFile, phase>>

Next ==
    \/ componentDidMount
    \/ Unmount
    \/ \E n \in 1..MaxPick : onFileChange(n)
    \/ clearAll
    \/ onResizeEnableChange
    \/ \E r \in 1..Len(runs) : DecodeResolved(r)
    \/ \E r \in 1..Len(runs) : DecodeRejected(r)
    \/ \E r \in 1..Len(runs) : ResizeResolved(r)
    \/ \E r \in 1..Len(runs) : ResizeRejected(r)
    \/ \E r \in 1..Len(runs) : EncodeResolved(r)
    \/ \E r \in 1..Len(runs) : EncodeRejected(r)

Spec == Init /\ [][Next]_vars

\* The component when the user never clears the batch.
NextNoClear ==
    \/ componentDidMount
    \/ Unmount
    \/ \E n \in 1..MaxPick : onFileChange(n)
    \/ onResizeEnableChange
    \/ \E r \in 1..Len(runs) : DecodeResolved(r)
    \/ \E r \in 1..Len(runs) : DecodeRejected(r)
    \/ \E r \in 1..Len(runs) : ResizeResolved(r)
    \/ \E r \in 1..Len(runs) : ResizeRejected(r)
    \/ \E r \in 1..Len(runs) : EncodeResolved(r)
    \/ \E r \in 1..Len(runs) : EncodeRejected(r)

SpecNoClear == Init /\ [][NextNoClear]_vars


\* ---------------------------------------------------------------- statistics
\* getCompletedCount(): the records whose status is 'done'.
getCompletedCount ==
    Cardinality({k \in 1..Len(processedFiles) :
                    processedFiles[k].slot = "object" /\ processedFiles[k].status = "done"})

\* ==================================================================== claims
\* The activations of processFiles that are suspended on a bridge request.
ActiveRuns == {r \in 1..Len(runs) : runs[r].pc \in Awaiting}

\* A suspended run whose current record is no longer the one at its index of the
\* store: the store was cleared after the run captured it.
Stale(r) ==
    /\ r \in ActiveRuns
    /\ At(processedFiles, runs[r].i).original # runs[r].snap[runs[r].i].original

\* C1: at most one run of processFiles is active (suspended inside its walk) in
\* every reachable state, whatever the interleaving of mount, add-files,
\* clear-all and bridge completions.
C1_AtMostOneRunActive == Cardinality(ActiveRuns) <= 1

\* C2: a processFiles call made while state.processing is true (the trigger of an
\* add-files step) changes no record's status, dispatches nothing (no run starts
\* and no run moves), leaves processing true; and it is not queued: a run only
\* ever starts inside a mount or add-files step taken while processing is false.
C2_TriggerWhileRunningIsNoOp ==
    [][/\ (processing /\ nextFile' # nextFile) =>
            /\ runs' = runs
            /\ processing' = TRUE
            /\ \A k \in 1..Len(processedFiles) :
                   processedFiles'[k].status = processedFiles[k].status
       /\ (Len(runs') > Len(runs)) =>
            /\ ~processing
            /\ phase' # phase \/ nextFile' # nextFile]_vars

\* C2 witness: files were appended while the only run was suspended, and it is
\* still the only run.
C2_Witness ==
    /\ processing
    /\ Len(runs) = 1
    /\ runs[1].pc \in Awaiting
    /\ Len(processedFiles) > Len(runs[1].snap)
    /\ processedFiles[Len(processedFiles)].status = "pending"


\* Position of a status on the path Pending -> Processing -> {Done | Error}.
Rank(status) ==
    CASE status = "pending" -> 0
      [] status = "processing" -> 1
      [] OTHER -> 2

\* Index k holds the same record before and after the step.
SameRecord(k) ==
    /\ k \in 1..Len(processedFiles) /\ k \in 1..Len(processedFiles')
    /\ processedFiles[k].slot = "object" /\ processedFiles'[k].slot = "object"
    /\ processedFiles'[k].original = processedFiles[k].original

\* C3: a record's status only moves forward: no step takes a record from Done or
\* Error back to Processing or Pending, from Processing back to Pending, from
\* Done to Error or from Error to Done.
C3_StatusMonotonic ==
    [][\A k \in 1..Len(processedFiles) :
          SameRecord(k) =>
             /\ Rank(processedFiles'[k].status) >= Rank(processedFiles[k].status)
             /\ processedFiles[k].status \in {"done", "error"} =>
                    processedFiles'[k].status = processedFiles[k].status]_vars

\* C4: for every record of the store, resultBlob, resultUrl, resultSize and
\* outputName are present iff status is Done, and error is present iff status
\* is Error (so no record holds both, and a Pending or Processing one neither).
C4_ResultIffDoneErrorIffError ==
    \A k \in 1..Len(processedFiles) :
        LET rec == processedFiles[k] IN
        rec.slot = "object" =>
            /\ rec.resultBlob # <<>> <=> rec.status = "done"
            /\ rec.resultUrl # <<>> <=> rec.status = "done"
            /\ rec.resultSize # <<>> <=> rec.status = "done"
            /\ rec.outputName # <<>> <=> rec.status = "done"
            /\ rec.error # <<>> <=> rec.status = "error"

\* C5: the outcome of work that was in flight when clear-all was issued is never
\* applied to the store: a step of a run whose records were cleared leaves the
\* store as it is (it stays empty until the next add-files, and no record
\* appended later receives that run's status, result or error).
C5_ClearedRunNeverWrites ==
    [][\A r \in 1..Len(runs) :
          (Stale(r) /\ runs'[r] # runs[r]) => processedFiles' = processedFiles]_vars

\* A run that a clear-all or an unmount has interrupted.
Interrupted(r) == r \in ActiveRuns /\ (Stale(r) \/ phase = "unmounted")

\* C6: once a clear-all or an unmount has happened while a request is in flight,
\* the cancellation token of that request is triggered, and the interrupted run
\* dispatches no further request (it does not move on to another record).
C6_ClearOrTeardownCancels ==
    [][/\ \A r \in 1..Len(runs') : Interrupted(r)' => runs'[r].signalAborted
       /\ \A r \in 1..Len(runs) :
              Interrupted(r) => ~(runs'[r].pc = "decode" /\ runs'[r].i # runs[r].i)]_vars


\* C7 (no clear-all occurs; checked under SpecNoClear): every appended record
\* reaches Done or Error without a further user action.  Bridge completions are
\* the only steps that need no user, and they exist only while a run is
\* suspended; so whenever the mounted component has no suspended run, no record
\* may still be waiting to be picked up.
C7_NothingPendingWhenNoRunIsLeft ==
    (phase # "constructed" /\ ActiveRuns = {}) =>
        \A k \in 1..Len(processedFiles) :
            processedFiles[k].status \in {"done", "error"}

\* The captured array of run r holds the File `original`.
InSnapshot(r, original) ==
    \E j \in 1..Len(runs[r].snap) : runs[r].snap[j].original = original

\* C8: a record appended while a run is active (it is not in the array that run
\* captured) stays Pending for as long as that run has not returned.
C8_AppendedDuringRunStaysPending ==
    \A r \in ActiveRuns :
        \A k \in 1..Len(processedFiles) :
            LET rec == processedFiles[k] IN
            (rec.slot = "object" /\ rec.original # <<>> /\ ~InSnapshot(r, rec.original))
                => rec.status = "pending"


\* Element k of a captured array is a record that was Pending at walk-start.
PendingAtStart(snap, k) == snap[k].slot = "object" /\ snap[k].status = "pending"

\* C9: within one run the records that were Pending at walk-start are started in
\* insertion order: whenever a run dispatches the decode of a new index, that
\* index is beyond the one it dispatched before, and no record between the two
\* was Pending at walk-start.
C9_StartedInInsertionOrder ==
    [][\A r \in 1..Len(runs') :
          LET prev == IF r <= Len(runs) THEN runs[r].i ELSE 0
              run == runs'[r]
          IN  (run.pc = "decode" /\ run.i # prev) =>
                 /\ run.i > prev
                 /\ PendingAtStart(run.snap, run.i)
                 /\ \A k \in (prev + 1)..(run.i - 1) : ~PendingAtStart(run.snap, k)]_vars

\* C9 witness: a run that captured A, B, C as Pending has reached C.
C9_Witness ==
    \E r \in ActiveRuns :
        /\ runs[r].i = 3
        /\ \A k \in 1..3 : PendingAtStart(runs[r].snap, k)

\* The decode, resize or encode request of run r fails in this step.
FailureStep(r) == DecodeRejected(r) \/ ResizeRejected(r) \/ EncodeRejected(r)

\* C10: when decode, resize or encode fails for the record at index i of a run,
\* that record becomes Error, no other record's status changes except that the
\* next record Pending at walk-start becomes Processing, and the run goes on:
\* it dispatches that next record, or returns when none is left.  For a batch
\* processed by a single run, every record that was Pending at walk-start is
\* Done or Error when the run returns.
C10_FailureDoesNotAbortBatch ==
    [][/\ \A r \in 1..Len(runs) :
            FailureStep(r) =>
               LET i == runs[r].i
                   snap == runs[r].snap
                   k == NextStop(snap, i + 1)
               IN  /\ processedFiles'[i].status = "error"
                   /\ processedFiles'[i].error # <<>>
                   /\ \A j \in 1..Len(processedFiles') :
                          (j # i /\ j # k) =>
                              processedFiles'[j].status = At(processedFiles, j).status
                   /\ (k <= Len(snap) /\ PendingAtStart(snap, k)) =>
                          /\ runs'[r].pc = "decode"
                          /\ runs'[r].i = k
                          /\ processedFiles'[k].status = "processing"
                   /\ k > Len(snap) => (runs'[r].pc = "returned" /\ ~processing')
       /\ (Len(runs) = 1 /\ runs[1].pc \in Awaiting /\ runs'[1].pc = "returned") =>
            \A j \in 1..Len(runs[1].snap) :
                (/\ PendingAtStart(runs[1].snap, j)
                 /\ At(processedFiles', j).original = runs[1].snap[j].original)
                    => processedFiles'[j].status \in {"done", "error"}]_vars

\* C10 witness: A, B, C processed by one run, B's decode failed: A = Done,
\* B = Error, C = Done and the Done count is 2.
C10_Witness ==
    /\ Len(runs) = 1 /\ runs[1].pc = "returned"
    /\ Len(processedFiles) = 3
    /\ \A k \in 1..3 : processedFiles[k].original = <<k>>
    /\ processedFiles[1].status = "done"
    /\ processedFiles[2].status = "error"
    /\ processedFiles[2].error = <<DecodeErrorMessage>>
    /\ processedFiles[3].status = "done"
    /\ getCompletedCount = 2


\* The handles of the records of the store whose status is 'done'.
DoneHandles ==
    {processedFiles[k].resultUrl[1] :
        k \in {j \in 1..Len(processedFiles) :
                  /\ processedFiles[j].slot = "object"
                  /\ processedFiles[j].status = "done"
                  /\ processedFiles[j].resultUrl # <<>>}}

\* C11: a clear-all on a store with N done records releases exactly the N handles
\* of those records (each done record has one, they are distinct and none was
\* released before), releases no handle of a pending, processing or error
\* record, and leaves the store empty.
C11_ClearRevokesExactlyDoneHandles ==
    [][clearAll =>
          /\ Cardinality(DoneHandles) = getCompletedCount
          /\ DoneHandles \cap revoked = {}
          /\ revoked' = revoked \cup DoneHandles
          /\ processedFiles' = <<>>]_vars


\* The handles the records of the store refer to.
StoreHandles ==
    {processedFiles[k].resultUrl[1] :
        k \in {j \in 1..Len(processedFiles) : processedFiles[j].resultUrl # <<>>}}

\* C12: every handle that createObjectURL has issued and revokeObjectURL has not
\* been given is the resultUrl of a record of the store; a handle that a write
\* or a clear removes from the store has been released.
C12_NoHandleLeaked ==
    \A u \in 1..urlsCreated : u \notin revoked => u \in StoreHandles


\* Run r ends in this step: it was suspended, or is started by this step, and is
\* not suspended afterwards.
Ends(r) ==
    /\ r \in 1..Len(runs')
    /\ runs'[r].pc \notin Awaiting
    /\ r > Len(runs) \/ runs[r].pc \in Awaiting

\* C13: a run ends only by walking off the end of the array it captured, and the
\* step in which it ends leaves state.processing false.  Each bridge completion
\* moves the run to a later request or to its end, so with completing bridge
\* operations this is the run's return to Idle.
C13_RunEndsIdle ==
    [][\A r \in 1..Len(runs') : Ends(r) => (runs'[r].pc = "returned" /\ ~processing')]_vars


\* Largest number of activations of processFiles when the driver is also called
\* directly.
MaxRuns == 4

\* this.processFiles() called on the mounted component by something other than
\* the two triggers.
Rerun ==
    /\ phase = "mounted"
    /\ Len(runs) < MaxRuns
    /\ processFiles(processedFiles, processing)
    /\ UNCHANGED <<app, call, selectedFormat, resize, urlsCreated, revoked, nextFile, phase>>

NextRerun == Next \/ Rerun

SpecRerun == Init /\ [][NextRerun]_vars

\* No element of the store is a record with status 'pending'.
NoPending ==
    \A k \in 1..Len(processedFiles) :
        ~(processedFiles[k].slot = "object" /\ processedFiles[k].status = "pending")

\* C14: a call of the driver while no record is pending leaves the store and
\* state.processing as they were and suspends no run on a bridge request.
C14_RerunWithoutPendingIsNoOp ==
    [][(NoPending /\ Rerun) =>
          /\ processedFiles' = processedFiles
          /\ processing' = processing
          /\ \A r \in 1..Len(runs') : r > Len(runs) => runs'[r].pc \notin Awaiting]_vars


\* ------------------------------------------------------------ settings
\* The component with the format select in use.
NextSettings == Next \/ \E format \in Formats : onFormatChange(format)

SpecSettings == Init /\ [][NextSettings]_vars

\* The anchors downloadAll() clicks, in order (part_000): one per record that is
\* done and has a resultUrl and an outputName.  forEach skips holes; an undefined
\* element throws at file.status and ends the handler.
downloadAll ==
    LET visited == SubSeq(processedFiles, 1, FirstUndefined(processedFiles) - 1)
        clicked(f) == /\ f.slot = "object" /\ f.status = "done"
                      /\ f.resultUrl # <<>> /\ f.outputName # <<>>
        files == SelectSeq(visited, clicked)
    IN  [k \in 1..Len(files) |-> [href |-> files[k].resultUrl[1], download |-> files[k].outputName[1]]]

\* The first element at which downloadAll() of BulkCompress/index.tsx throws: an
\* undefined element, or a done record with a resultUrl and no `original`.
FirstThrowing(files) ==
    LET throws(f) == \/ f.slot = "undefined"
                     \/ /\ f.slot = "object" /\ f.status = "done"
                        /\ f.resultUrl # <<>> /\ f.original = <<>>
    IN  IF \E k \in 1..Len(files) : throws(files[k])
        THEN CHOOSE k \in 1..Len(files) :
                throws(files[k]) /\ \A j \in 1..(k - 1) : ~throws(files[j])
        ELSE Len(files) + 1

\* The anchors downloadAll() of BulkCompress/index.tsx clicks: the name is built at
\* download time, `squooshed-${name}.${ext}` with ext from this.state.selectedFormat.
downloadAllSquooshed ==
    LET visited == SubSeq(processedFiles, 1, FirstThrowing(processedFiles) - 1)
        clicked(f) == f.slot = "object" /\ f.status = "done" /\ f.resultUrl # <<>>
        files == SelectSeq(visited, clicked)
    IN  [k \in 1..Len(files) |->
            [href |-> files[k].resultUrl[1],
             download |-> [prefix |-> "squooshed-", originalName |-> files[k].original[1],
                           suffix |-> "", format |-> selectedFormat]]]

\* Every anchor is named with the format of the blob its href was created for.
NamedAsEncoded(anchors) ==
    \A a \in 1..Len(anchors) : \A k \in 1..Len(processedFiles) :
        (processedFiles[k].resultUrl = <<anchors[a].href>> /\ processedFiles[k].resultBlob # <<>>)
            => anchors[a].download.format = processedFiles[k].resultBlob[1].format

\* A step of a settings handler.
SettingsStep == selectedFormat' # selectedFormat \/ resize' # resize

\* C15: a settings change leaves the store and the settings every suspended run
\* holds as they were; the blob a run writes has the format the run holds; and
\* after every step each anchor of Download All, in both revisions of the
\* component, carries the format its record was encoded with.
C15_DispatchedFileKeepsItsConfig ==
    [][/\ SettingsStep => (processedFiles' = processedFiles /\ runs' = runs)
       /\ \A r \in 1..Len(runs) :
             EncodeResolved(r) =>
                 At(processedFiles', runs[r].i).resultBlob[1].format = runs[r].cfg.selectedFormat
       /\ NamedAsEncoded(downloadAll)'
       /\ NamedAsEncoded(downloadAllSquooshed)']_vars


\* Run r marks a record 'processing' and dispatches its decode in this step.
Dispatches(r) ==
    /\ r \in 1..Len(runs')
    /\ runs'[r].pc = "decode"
    /\ r > Len(runs) \/ runs'[r].i # runs[r].i

\* C16 as stated: every record is dispatched with the settings in force at the
\* moment it is marked 'processing'.
C16_ConfigReadPerFile ==
    [][\A r \in 1..Len(runs') : Dispatches(r) => runs'[r].cfg = ConfigSnapshot']_vars

\* C16 amended: the settings are captured once per run, when the run starts, and
\* every record of the run is processed with them: a run starts with the
\* settings then in force, keeps them for as long as it is suspended, decides
\* on the resize request by them and encodes and names the result by them.
C16_ConfigCapturedPerRun ==
    [][\A r \in 1..Len(runs') :
          /\ (r > Len(runs) /\ runs'[r].pc \in Awaiting) => runs'[r].cfg = ConfigSnapshot
          /\ (r <= Len(runs) /\ runs[r].pc \in Awaiting) =>
                /\ runs'[r].pc \in Awaiting => runs'[r].cfg = runs[r].cfg
                /\ DecodeResolved(r) => (runs'[r].pc = "resize" <=> runs[r].cfg.resize.enabled)
                /\ EncodeResolved(r) =>
                      LET rec == At(processedFiles', runs[r].i) IN
                      /\ rec.resultBlob[1].format = runs[r].cfg.selectedFormat
                      /\ rec.outputName = <<OutputName(FileOf(runs[r])[1], runs[r].cfg)>>]_vars

\* C16 witness: a run suspended on its second or later record holds settings that
\* are no longer the ones in force.
C16_Witness ==
    \E r \in ActiveRuns :
        /\ runs[r].i >= 2
        /\ At(processedFiles, runs[r].i - 1).status \in {"done", "error"}
        /\ runs[r].cfg # ConfigSnapshot


\* The records of the store whose status is 'processing'.
ProcessingRecords ==
    {k \in 1..Len(processedFiles) :
        processedFiles[k].slot = "object" /\ processedFiles[k].status = "processing"}

\* C17: at most one decode, resize or encode request is outstanding (each
\* suspended run awaits exactly one) and at most one record is 'processing'.
C17_StrictlySequential ==
    /\ Cardinality(ActiveRuns) <= 1
    /\ Cardinality(ProcessingRecords) <= 1


\* The record at index k is the one a run marks 'processing' in this step.
DispatchedNow(k) == \E r \in 1..Len(runs') : Dispatches(r) /\ runs'[r].i = k

\* C18: a step that is not a clear-all neither shortens the store nor changes the
\* `original` at any index; an add-files step of n files lengthens the store by
\* n, puts the new files at the end in the order given, Pending (or already
\* marked Processing by the run the step starts), and leaves every existing
\* record as it was, except that the run it starts may mark one Processing.
C18_AppendOnly ==
    [][/\ ~clearAll =>
            /\ Len(processedFiles') >= Len(processedFiles)
            /\ \A k \in 1..Len(processedFiles) :
                   processedFiles'[k].original = processedFiles[k].original
       /\ nextFile' # nextFile =>
            LET n == nextFile' - nextFile
                len == Len(processedFiles)
            IN  /\ Len(processedFiles') = len + n
                /\ \A j \in 1..n :
                       /\ processedFiles'[len + j].original = <<nextFile + j - 1>>
                       /\ \/ processedFiles'[len + j] = NewRecord(nextFile + j - 1)
                          \/ /\ DispatchedNow(len + j)
                             /\ processedFiles'[len + j] =
                                    [NewRecord(nextFile + j - 1) EXCEPT !.status = "processing"]
                /\ \A k \in 1..len :
                       processedFiles[k].slot = "object" =>
                           \/ processedFiles'[k] = processedFiles[k]
                           \/ /\ DispatchedNow(k)
                              /\ processedFiles[k].status = "pending"
                              /\ processedFiles'[k] =
                                     [processedFiles[k] EXCEPT !.status = "processing"]]_vars

\* C18 witness: B was added while the run that completed A was in progress; it
\* sits behind A, still Pending, and A's record is where it was.
C18_Witness ==
    /\ Len(runs) = 1 /\ runs[1].pc = "returned"
    /\ Len(processedFiles) = 2
    /\ processedFiles[1].original = <<1>> /\ processedFiles[1].status = "done"
    /\ processedFiles[2] = NewRecord(2)


\* The request of run r completes, with a result or a failure, for a record whose
\* index lies beyond the end of the current store.
UpdatesOutOfRange(r) ==
    /\ r \in ActiveRuns
    /\ runs[r].i > Len(processedFiles)
    /\ FailureStep(r) \/ EncodeResolved(r)

\* C19: a record update at an index out of range of the current store writes
\* nothing and ends the run with an error thrown to the caller of the driver.
C19_OutOfRangeUpdateIsFatal ==
    [][\A r \in 1..Len(runs) :
          UpdatesOutOfRange(r) =>
              (processedFiles' = processedFiles /\ runs'[r].pc = "thrown")]_vars


\* C20: when the decode of the record at index i of a run fails, the record at
\* that index becomes Error with the decode message, which is not the message
\* of a resize or encode failure; no result is written and no handle created;
\* and the run makes no resize or encode request for it: it is next suspended
\* on the decode of a later record, or has ended.
C20_DecodeFailureIsReported ==
    [][\A r \in 1..Len(runs) :
          DecodeRejected(r) =>
              LET i == runs[r].i IN
              /\ processedFiles'[i].status = "error"
              /\ processedFiles'[i].error = <<DecodeErrorMessage>>
              /\ DecodeErrorMessage \notin {ResizeErrorMessage, EncodeErrorMessage}
              /\ processedFiles'[i].resultBlob = At(processedFiles, i).resultBlob
              /\ processedFiles'[i].resultUrl = At(processedFiles, i).resultUrl
              /\ urlsCreated' = urlsCreated
              /\ runs'[r].pc \notin {"resize", "encode"}
              /\ runs'[r].pc = "decode" => runs'[r].i > i]_vars

\* C20 witness: the decode of A, the only file, failed: A is Error with the decode
\* message and no result, no handle was created, and the run has returned.
C20_Witness ==
    /\ Len(runs) = 1 /\ runs[1].pc = "returned"
    /\ urlsCreated = 0
    /\ Len(processedFiles) = 1
    /\ processedFiles[1] = [NewRecord(1) EXCEPT !.status = "error",
                                                !.error = <<DecodeErrorMessage>>]


\* ============================================================ numbers
\* A JavaScript number is an IEEE-754 double: a significand of 53 bits and a
\* power of two.  The significands of the doubles that compressFile computes
\* (scale / 100, width / height, ...) do not fit a machine integer of the model
\* checker, so a natural number is a sequence of digits to the base 2^15, least
\* significant first, without leading zeros.
Precision == 53

DigitBits == 15

Base == 2^DigitBits

RECURSIVE Digits(_)
Digits(n) == IF n = 0 THEN <<>> ELSE <<n % Base>> \o Digits(n \div Base)

RECURSIVE Value(_)
Value(a) == IF a = <<>> THEN 0 ELSE a[1] + Base * Value(Tail(a))

RECURSIVE Trim(_)
Trim(a) == IF a # <<>> /\ a[Len(a)] = 0 THEN Trim(SubSeq(a, 1, Len(a) - 1)) ELSE a

Digit(a, k) == IF k \in 1..Len(a) THEN a[k] ELSE 0

Rest(a) == IF a = <<>> THEN <<>> ELSE Tail(a)

RECURSIVE AddCarry(_, _, _)
AddCarry(a, b, carry) ==
    IF a = <<>> /\ b = <<>>
    THEN IF carry = 0 THEN <<>> ELSE <<carry>>
    ELSE LET s == Digit(a, 1) + Digit(b, 1) + carry
         IN  <<s % Base>> \o AddCarry(Rest(a), Rest(b), s \div Base)

Add(a, b) == AddCarry(a, b, 0)

RECURSIVE SubBorrow(_, _, _)
SubBorrow(a, b, borrow) ==
    IF a = <<>>
    THEN <<>>
    ELSE LET d == a[1] - Digit(b, 1) - borrow
         IN  <<d % Base>> \o SubBorrow(Tail(a), Rest(b), IF d < 0 THEN 1 ELSE 0)

\* a - b for a >= b.
Sub(a, b) == Trim(SubBorrow(a, b, 0))

Less(a, b) ==
    \/ Len(a) < Len(b)
    \/ /\ Len(a) = Len(b)
       /\ \E k \in 1..Len(a) : a[k] < b[k] /\ \A j \in (k + 1)..Len(a) : a[j] = b[j]

\* a * d for one digit d.
RECURSIVE TimesDigit(_, _, _)
TimesDigit(a, d, carry) ==
    IF a = <<>>
    THEN IF carry = 0 THEN <<>> ELSE <<carry>>
    ELSE LET p == a[1] * d + carry
         IN  <<p % Base>> \o TimesDigit(Tail(a), d, p \div Base)

RECURSIVE Times(_, _)
Times(a, b) ==
    IF a = <<>> \/ b = <<>> THEN <<>>
    ELSE Add(TimesDigit(a, b[1], 0), <<0>> \o Times(a, Tail(b)))

\* The number of bits of a digit and of a number.
RECURSIVE DigitLength(_)
DigitLength(d) == IF d = 0 THEN 0 ELSE 1 + DigitLength(d \div 2)

BitLength(a) == IF a = <<>> THEN 0 ELSE DigitBits * (Len(a) - 1) + DigitLength(a[Len(a)])

\* a * 2^k and floor(a / 2^k).
ShiftLeft(a, k) ==
    IF a = <<>> THEN <<>>
    ELSE [i \in 1..(k \div DigitBits) |-> 0] \o TimesDigit(a, 2^(k % DigitBits), 0)

ShiftRight(a, k) ==
    LET q == k \div DigitBits
        r == k % DigitBits
    IN  Trim([i \in 1..(Len(a) - q) |->
                 (Digit(a, i + q) \div 2^r) + (Digit(a, i + q + 1) % 2^r) * 2^(DigitBits - r)])

\* Bit k of a (bit 1 is the least significant), and whether a bit below k is set.
BitAt(a, k) == (Digit(a, (k - 1) \div DigitBits + 1) \div 2^((k - 1) % DigitBits)) % 2

AnyBitBelow(a, k) ==
    k > 1 /\ LET q == (k - 1) \div DigitBits
                 r == (k - 1) % DigitBits
             IN  \/ \E i \in 1..q : Digit(a, i) # 0
                 \/ Digit(a, q + 1) % 2^r # 0

\* Long division to the base 2^StepBits by b: acc holds the quotient digits
\* found so far and what remains of the dividend, less than b; `steps` more
\* digits are to be found.
StepBits == 5

QuotientSteps == 12

Scaled(b, d) == Trim(TimesDigit(b, d, 0))

\* One step: the next quotient digit is the largest c with c * b <= rem * 2^StepBits.
DivideStep(b, acc) ==
    LET r == ShiftLeft(acc.rem, StepBits)
        d == CHOOSE c \in 0..(2^StepBits - 1) :
                 /\ ~Less(r, Scaled(b, c))
                 /\ c = 2^StepBits - 1 \/ Less(r, Scaled(b, c + 1))
    IN  [rem |-> Sub(r, Scaled(b, d)),
         quot |-> Add(ShiftLeft(acc.quot, StepBits), Digits(d))]

\* The remaining quotient digits are zero once nothing remains.
RECURSIVE LongDivide(_, _, _)
LongDivide(b, steps, acc) ==
    IF acc.rem = <<>> \/ steps = 0
    THEN [rem |-> acc.rem, quot |-> ShiftLeft(acc.quot, StepBits * steps)]
    ELSE LongDivide(b, steps - 1, DivideStep(b, acc))

\* The double nearest to n * 2^e (ties to even); `sticky` says that the exact
\* value lies above n * 2^e by less than 2^e.
RoundToDouble(n, e, sticky) ==
    IF BitLength(n) <= Precision
    THEN [m |-> n, e |-> e]
    ELSE LET d == BitLength(n) - Precision
             kept == ShiftRight(n, d)
             more == sticky \/ AnyBitBelow(n, d)
             up == BitAt(n, d) = 1 /\ (more \/ kept[1] % 2 = 1)
         IN  [m |-> IF up THEN Add(kept, <<1>>) ELSE kept, e |-> e + d]

\* Magnitudes m * 2^e of doubles: product and quotient, correctly rounded.
TimesMagnitude(x, y) == RoundToDouble(Times(x.m, y.m), x.e + y.e, FALSE)

\* x / y, y # 0: both significands are brought to the same number of bits, so
\* that the quotient lies between 1/2 and 2; StepBits * QuotientSteps, more than
\* Precision + 2, bits of it are computed behind the binary point.
OverMagnitude(x, y) ==
    LET shift == BitLength(y.m) - BitLength(x.m)
        xm == IF shift > 0 THEN ShiftLeft(x.m, shift) ELSE x.m
        ym == IF shift < 0 THEN ShiftLeft(y.m, -shift) ELSE y.m
        bits == StepBits * QuotientSteps
        first == ~Less(xm, ym)
        q == LongDivide(ym, QuotientSteps,
                        IF first THEN [rem |-> Sub(xm, ym), quot |-> <<1>>]
                                 ELSE [rem |-> xm, quot |-> <<>>])
    IN  IF x.m = <<>> THEN [m |-> <<>>, e |-> 0]
        ELSE RoundToDouble(q.quot, x.e - y.e - shift - bits, q.rem # <<>>)

LessMagnitude(x, y) ==
    LET low == IF x.e < y.e THEN x.e ELSE y.e
    IN  Less(ShiftLeft(x.m, x.e - low), ShiftLeft(y.m, y.e - low))

\* JavaScript numbers.
Number(n) ==
    [kind |-> "finite", neg |-> n < 0, m |-> Digits(IF n < 0 THEN -n ELSE n), e |-> 0]

NaN == [kind |-> "NaN", neg |-> FALSE, m |-> <<>>, e |-> 0]

Infinity(neg) == [kind |-> "Infinity", neg |-> neg, m |-> <<>>, e |-> 0]

Finite(neg, mag) == [kind |-> "finite", neg |-> neg, m |-> mag.m, e |-> mag.e]

\* x / y for finite or NaN operands.
Divide(x, y) ==
    IF x.kind = "NaN" \/ y.kind = "NaN" THEN NaN
    ELSE IF y.m = <<>> THEN (IF x.m = <<>> THEN NaN ELSE Infinity(x.neg # y.neg))
    ELSE Finite(x.neg # y.neg, OverMagnitude(x, y))

\* x * y for finite or NaN operands.
Multiply(x, y) ==
    IF x.kind = "NaN" \/ y.kind = "NaN" THEN NaN
    ELSE Finite(x.neg # y.neg, TimesMagnitude(x, y))

\* x > y.
GreaterThan(x, y) ==
    IF x.kind = "NaN" \/ y.kind = "NaN" THEN FALSE
    ELSE IF x.kind = "Infinity" THEN ~x.neg /\ ~(y.kind = "Infinity" /\ ~y.neg)
    ELSE IF y.kind = "Infinity" THEN y.neg
    ELSE IF x.m = <<>> /\ y.m = <<>> THEN FALSE
    ELSE IF x.neg # y.neg THEN y.neg
    ELSE IF x.neg THEN LessMagnitude(x, y)
    ELSE LessMagnitude(y, x)

\* Math.round(x) for a finite or NaN x: floor(x + 0.5).
MathRound(x) ==
    IF x.kind = "NaN" THEN NaN
    ELSE IF x.e >= 0 THEN x
    ELSE LET k == -x.e
             whole == ShiftRight(x.m, k)
             half == BitAt(x.m, k) = 1
             below == AnyBitBelow(x.m, k)
             up == IF x.neg THEN half /\ below ELSE half
         IN  [kind |-> "finite", neg |-> x.neg,
              m |-> IF up THEN Add(whole, <<1>>) ELSE whole, e |-> 0]

\* Math.max(1, x): NaN when x is NaN.
MathMax1(x) ==
    IF x.kind = "NaN" THEN NaN
    ELSE IF GreaterThan(x, Number(1)) THEN x ELSE Number(1)

\* An integral number as an integer, NaN as it is.
Integral(x) ==
    IF x.kind = "NaN" THEN [nan |-> TRUE, n |-> 0]
    ELSE [nan |-> FALSE, n |-> (IF x.neg THEN -1 ELSE 1) * Value(ShiftLeft(x.m, x.e))]

\* ============================================================ geometry
\* The text of an <input> is a sequence of characters.
DecimalDigits == <<"0", "1", "2", "3", "4", "5", "6", "7", "8", "9">>

DigitValue(c) == (CHOOSE k \in 1..Len(DecimalDigits) : DecimalDigits[k] = c) - 1

IsDigit(c) == \E k \in 1..Len(DecimalDigits) : DecimalDigits[k] = c

\* The value of the longest prefix of decimal digits of text after `seen`.
RECURSIVE LeadingDigits(_, _)
LeadingDigits(text, seen) ==
    IF text = <<>> \/ ~IsDigit(Head(text)) THEN seen
    ELSE LeadingDigits(Tail(text), 10 * seen + DigitValue(Head(text)))

\* parseInt(text, 10): an optional sign and the leading decimal digits; NaN when
\* there is no digit.
parseInt(text) ==
    LET signed == text # <<>> /\ Head(text) \in {"+", "-"}
        digits == IF signed THEN Tail(text) ELSE text
    IN  IF digits = <<>> \/ ~IsDigit(Head(digits)) THEN NaN
        ELSE Number((IF signed /\ Head(text) = "-" THEN -1 ELSE 1) * LeadingDigits(digits, 0))

\* A target size that is the requested size whatever the mode and the source.
TargetSizeVerbatim(decoded, resizeSettings) ==
    [width |-> MathMax1(resizeSettings.width), height |-> MathMax1(resizeSettings.height)]

\* A target size that is fitted to the aspect of the source whatever the settings say.
TargetSizeFitted(decoded, resizeSettings) ==
    LET aspect == Divide(Number(decoded.width), Number(decoded.height))
        target ==
            IF GreaterThan(Divide(resizeSettings.width, resizeSettings.height), aspect)
            THEN [width |-> MathRound(Multiply(resizeSettings.height, aspect)),
                  height |-> resizeSettings.height]
            ELSE [width |-> resizeSettings.width,
                  height |-> MathRound(Divide(resizeSettings.width, aspect))]
    IN  [width |-> MathMax1(target.width), height |-> MathMax1(target.height)]

\* A target size that covers the requested box: the comparison of the aspects
\* the other way round.
TargetSizeCovering(decoded, resizeSettings) ==
    LET aspect == Divide(Number(decoded.width), Number(decoded.height))
        target ==
            IF GreaterThan(Divide(resizeSettings.width, resizeSettings.height), aspect)
            THEN [width |-> resizeSettings.width,
                  height |-> MathRound(Divide(resizeSettings.width, aspect))]
            ELSE [width |-> MathRound(Multiply(resizeSettings.height, aspect)),
                  height |-> resizeSettings.height]
    IN  IF resizeSettings.mode = "dimensions" /\ resizeSettings.maintainAspectRatio
        THEN [width |-> MathMax1(target.width), height |-> MathMax1(target.height)]
        ELSE [width |-> MathMax1(resizeSettings.width), height |-> MathMax1(resizeSettings.height)]

\* A resize stage that asks for a resize to the size of the source when resize is
\* disabled.
ResizeStageAlways(decoded, resizeSettings) ==
    [requests |-> <<[width |-> [nan |-> FALSE, n |-> decoded.width],
                     height |-> [nan |-> FALSE, n |-> decoded.height],
                     method |-> "lanczos3", fitMethod |-> "stretch",
                     premultiply |-> TRUE, linearRGB |-> TRUE]>>,
     image |-> "resized"]

\* compressFile, lines 246-275: the target size of the resize request for a
\* decoded image of decoded.width x decoded.height under resizeSettings.
TargetSize(decoded, resizeSettings) ==
    LET width == Number(decoded.width)
        height == Number(decoded.height)
        ratio == Divide(resizeSettings.scale, Number(100))
        aspect == Divide(width, height)
        target ==
            IF resizeSettings.mode = "scale"
            THEN [width |-> MathRound(Multiply(width, ratio)),
                  height |-> MathRound(Multiply(height, ratio))]
            ELSE IF resizeSettings.maintainAspectRatio
            THEN IF GreaterThan(Divide(resizeSettings.width, resizeSettings.height), aspect)
                 THEN [width |-> MathRound(Multiply(resizeSettings.height, aspect)),
                       height |-> resizeSettings.height]
                 ELSE [width |-> resizeSettings.width,
                       height |-> MathRound(Divide(resizeSettings.width, aspect))]
            ELSE [width |-> resizeSettings.width, height |-> resizeSettings.height]
    IN  [width |-> MathMax1(target.width), height |-> MathMax1(target.height)]

\* compressFile, lines 245-287: the resize requests made for a decoded image (none
\* or one, with its options) and the image that goes on to the encoder.
ResizeStage(decoded, resizeSettings) ==
    IF resizeSettings.enabled
    THEN LET target == TargetSize(decoded, resizeSettings)
         IN  [requests |-> <<[width |-> Integral(target.width),
                              height |-> Integral(target.height),
                              method |-> "lanczos3", fitMethod |-> "stretch",
                              premultiply |-> TRUE, linearRGB |-> TRUE]>>,
              image |-> "resized"]
    ELSE [requests |-> <<>>, image |-> "decoded"]

\* Decoded images: sizes of a few pixels and of a photograph.
DecodedImages ==
    { [width |-> 2, height |-> 1], [width |-> 18, height |-> 7], [width |-> 13, height |-> 6],
      [width |-> 25, height |-> 29], [width |-> 4000, height |-> 3000] }

\* Texts of the width and height fields (type="number", no min): cleared, zero,
\* negative, and sizes.
DimensionTexts ==
    { <<>>, <<"0">>, <<"-", "1">>, <<"9">>, <<"2", "7">>, <<"1", "0", "0", "0">> }

\* Values of the scale slider (type="range", min 1, max 200).
ScaleTexts == { <<"1">>, <<"5", "0">>, <<"5", "8">> }

\* state.resize as the handlers leave it.
ResizeSettings ==
    { [enabled |-> enabled, mode |-> mode, maintainAspectRatio |-> keep,
       scale |-> parseInt(scale), width |-> parseInt(width), height |-> parseInt(height)] :
         enabled \in BOOLEAN, mode \in {"scale", "dimensions"}, keep \in BOOLEAN,
         scale \in ScaleTexts, width \in DimensionTexts, height \in DimensionTexts }

\* The resize stage examined by itself: a decoded image and resize settings come
\* in, the stage runs once.
GeometryInit ==
    /\ processedFiles = <<>>
    /\ nextFile = 1
    /\ processing = FALSE
    /\ selectedFormat = DefaultConfig.selectedFormat
    /\ resize = DefaultConfig.resize
    /\ runs = <<>>
    /\ urlsCreated = 0
    /\ revoked = {}
    /\ phase = "constructed"
    /\ app = NoApp
    /\ \E decoded \in DecodedImages, resizeSettings \in ResizeSettings :
           call = [op |-> "resize", decoded |-> decoded, resizeSettings |-> resizeSettings,
                   pc |-> "decoded", requests |-> <<>>, image |-> "decoded"]

Resize ==
    /\ call.op = "resize"
    /\ call.pc = "decoded"
    /\ LET stage == ResizeStage(call.decoded, call.resizeSettings)
       IN  call' = [call EXCEPT !.pc = "encode", !.requests = stage.requests,
                                !.image = stage.image]
    /\ UNCHANGED <<processedFiles, processing, selectedFormat, resize, runs, urlsCreated, revoked,
                   nextFile, phase, app>>

SpecGeometry == GeometryInit /\ [][Resize]_vars

\* ------------------------------------------------- claims on the geometry
\* The resize stage has run.
Returned == call.op = "resize" /\ call.pc = "encode"

\* The requested number is a positive integer.
Positive(x) == x.kind = "finite" /\ ~x.neg /\ x.m # <<>> /\ x.e = 0

\* The integer n as the width or height of a resize request.
Exactly(n) == [nan |-> FALSE, n |-> n]

\* round(n / d) of the exact quotient, for n >= 0 and d > 0: the nearest integer,
\* the upper one of two nearest (Math.round).
RoundedQuotient(n, d) == (2 * n + d) \div (2 * d)

AtLeast1(n) == IF n < 1 THEN 1 ELSE n

\* Dimensions mode, aspect ratio kept, positive requested width and height.
FitsDimensions ==
    /\ Returned
    /\ call.resizeSettings.enabled
    /\ call.resizeSettings.mode = "dimensions"
    /\ call.resizeSettings.maintainAspectRatio
    /\ Positive(call.resizeSettings.width)
    /\ Positive(call.resizeSettings.height)

\* C21: in Dimensions mode with the aspect ratio kept, when requested width /
\* requested height > source width / source height the target height is the
\* requested height and the target width is round(target height * aspect);
\* otherwise, equality included, the target width is the requested width and the
\* target height is round(target width / aspect) (each clamped to at least 1).
C21_LimitingAxisByStrictComparison ==
    FitsDimensions =>
        LET W == call.decoded.width
            H == call.decoded.height
            Rw == Integral(call.resizeSettings.width).n
            Rh == Integral(call.resizeSettings.height).n
            target == call.requests[1]
        IN  IF Rw * H > Rh * W
            THEN /\ target.height = Exactly(Rh)
                 /\ target.width = Exactly(AtLeast1(RoundedQuotient(Rh * W, H)))
            ELSE /\ target.width = Exactly(Rw)
                 /\ target.height = Exactly(AtLeast1(RoundedQuotient(Rw * H, W)))

\* C22: after the geometry computation both target axes are at least 1, for
\* every resize configuration, the degenerate ones included: no NaN, no 0 and
\* no negative dimension is asked for.
C22_BothAxesAtLeastOne ==
    (Returned /\ call.resizeSettings.enabled) =>
        LET target == call.requests[1]
        IN  /\ ~target.width.nan /\ target.width.n >= 1
            /\ ~target.height.nan /\ target.height.n >= 1

\* C23: in Dimensions mode with the aspect ratio kept and positive requested
\* width and height, the target is the requested size on the limiting axis (so
\* not above it), the other axis is within half a pixel of the size that keeps
\* W/H exactly, or 1 where that size is below 1, and both axes are at least 1.
C23_FitKeepsAspectWithinRounding ==
    FitsDimensions =>
        LET W == call.decoded.width
            H == call.decoded.height
            Rw == Integral(call.resizeSettings.width).n
            Rh == Integral(call.resizeSettings.height).n
            target == call.requests[1]
            Within(t, n, d) ==
                \/ 2 * t * d - 2 * n \in (-d)..d
                \/ t = 1 /\ 2 * n < d
        IN  /\ ~target.width.nan /\ ~target.height.nan
            /\ target.width.n >= 1 /\ target.height.n >= 1
            /\ IF Rw * H > Rh * W
               THEN target.height.n = Rh /\ Within(target.width.n, Rh * W, H)
               ELSE target.width.n = Rw /\ Within(target.height.n, Rw * H, W)

\* A fit whose exact size on the other axis lies halfway between two integers.
C23_Witness ==
    /\ FitsDimensions
    /\ call.decoded = [width |-> 18, height |-> 7]
    /\ call.requests[1].width = Exactly(9)
    /\ call.requests[1].height = Exactly(3)

\* C24: with resize disabled no resize request is made and the decoded image
\* goes on to the encoder as it is, whatever the mode, scale, width, height and
\* aspect settings are.
C24_DisabledLeavesImageAlone ==
    (Returned /\ ~call.resizeSettings.enabled) =>
        call.requests = <<>> /\ call.image = "decoded"

C24_Witness ==
    /\ Returned
    /\ ~call.resizeSettings.enabled
    /\ call.resizeSettings.mode = "dimensions"
    /\ call.resizeSettings.width = Number(1000)
    /\ call.decoded = [width |-> 4000, height |-> 3000]

\* C25: in Scale mode each target axis is round(source * percent / 100) of its
\* own source axis, clamped to at least 1, for every source size and percent.
C25_ScaleRoundsEachAxis ==
    (Returned /\ call.resizeSettings.enabled /\ call.resizeSettings.mode = "scale") =>
        LET percent == Integral(call.resizeSettings.scale).n
            target == call.requests[1]
        IN  /\ target.width = Exactly(AtLeast1(RoundedQuotient(call.decoded.width * percent, 100)))
            /\ target.height = Exactly(AtLeast1(RoundedQuotient(call.decoded.height * percent, 100)))

\* C26: in Dimensions mode with the aspect ratio not kept, the target is the
\* requested width and height as they are, for every positive requested width and
\* height and every source size.
C26_DimensionsVerbatim ==
    ( /\ Returned
      /\ call.resizeSettings.enabled
      /\ call.resizeSettings.mode = "dimensions"
      /\ ~call.resizeSettings.maintainAspectRatio
      /\ Positive(call.resizeSettings.width)
      /\ Positive(call.resizeSettings.height) ) =>
        /\ call.requests[1].width = Integral(call.resizeSettings.width)
        /\ call.requests[1].height = Integral(call.resizeSettings.height)

C26_Witness ==
    /\ Returned
    /\ call.resizeSettings.enabled
    /\ call.resizeSettings.mode = "dimensions"
    /\ ~call.resizeSettings.maintainAspectRatio
    /\ call.decoded = [width |-> 4000, height |-> 3000]
    /\ call.requests[1].width = Exactly(9)
    /\ call.requests[1].height = Exactly(1000)

\* C35: in Dimensions mode with the aspect ratio kept and positive requested
\* width and height, the target width is not above the requested width and the
\* target height not above the requested height (with or without the clamp to
\* 1, the requested sizes being at least 1), and on the limiting axis the
\* target is the requested size.
C35_TargetInsideRequestedBox ==
    FitsDimensions =>
        LET W == call.decoded.width
            H == call.decoded.height
            Rw == Integral(call.resizeSettings.width).n
            Rh == Integral(call.resizeSettings.height).n
            target == call.requests[1]
        IN  /\ ~target.width.nan /\ target.width.n <= Rw
            /\ ~target.height.nan /\ target.height.n <= Rh
            /\ IF Rw * H > Rh * W THEN target.height.n = Rh ELSE target.width.n = Rw

\* A 13 x 6 image fitted into 1000 x 27: height is the limiting axis and the
\* request is 58 x 27.
C35_Witness ==
    /\ FitsDimensions
    /\ call.decoded = [width |-> 13, height |-> 6]
    /\ call.resizeSettings.width = parseInt(<<"1", "0", "0", "0">>)
    /\ call.requests[1].width = Exactly(58)
    /\ call.requests[1].height = Exactly(27)

\* ============================================================ output name
\* Texts are sequences of characters.
\* text.split(sep): the pieces of text between the occurrences of sep.
RECURSIVE Split(_, _)
Split(text, sep) ==
    IF \A k \in 1..Len(text) : text[k] # sep
    THEN <<text>>
    ELSE LET k == CHOOSE i \in 1..Len(text) :
                      text[i] = sep /\ \A j \in 1..(i - 1) : text[j] # sep
         IN  <<SubSeq(text, 1, k - 1)>> \o Split(SubSeq(text, k + 1, Len(text)), sep)

\* `${value}` of a missing array element.
UndefinedText == <<"u", "n", "d", "e", "f", "i", "n", "e", "d">>

\* A variant of the pattern that takes everything from the first "." on.
originalNameFromFirstDot(name) ==
    IF \A k \in 1..Len(name) : name[k] # "."
    THEN name
    ELSE SubSeq(name, 1, (CHOOSE i \in 1..Len(name) :
                              name[i] = "." /\ \A j \in 1..(i - 1) : name[j] # ".") - 1)

\* mimeType.split('/')[1]
ext(mimeType) ==
    LET pieces == Split(mimeType, "/")
    IN  IF Len(pieces) >= 2 THEN pieces[2] ELSE UndefinedText

\* /\.[^/.]+$/ matches name from position i: a ".", then one or more characters
\* other than "/" and "." up to the end.
ExtensionAt(name, i) ==
    /\ name[i] = "."
    /\ i < Len(name)
    /\ \A j \in (i + 1)..Len(name) : name[j] \notin {"/", "."}

\* name.replace(/\.[^/.]+$/, ""): the leftmost match is removed.
originalName(name) ==
    IF \E i \in 1..Len(name) : ExtensionAt(name, i)
    THEN SubSeq(name, 1, (CHOOSE i \in 1..Len(name) :
                              ExtensionAt(name, i) /\ \A j \in 1..(i - 1) : ~ExtensionAt(name, j)) - 1)
    ELSE name

\* `${output.prefix}${originalName}${output.suffix}.${ext}`
outputNameOf(output, name, mimeType) ==
    output.prefix \o originalName(name) \o output.suffix \o <<".">> \o ext(mimeType)

\* Names of the files handed in: one extension, several, none, a trailing dot,
\* and a name that is only an extension.
FileNames == { <<"a", ".", "j", "p", "g">>, <<"a", ".", "b", ".", "c">>, <<"a", "b">>,
              <<"a", ".">>, <<".", "a">> }

\* Texts of the prefix and suffix fields.
AffixTexts == { <<>>, <<"p", "_">>, <<".", "m">> }

\* encoder.meta.mimeType of the encoders.
MimeTypes == { <<"i", "m", "a", "g", "e", "/", "j", "p", "e", "g">>,
              <<"i", "m", "a", "g", "e", "/", "w", "e", "b", "p">>,
              <<"i", "m", "a", "g", "e", "/", "p", "n", "g">> }

\* Naming examined by itself: the naming settings, the name of the file and the
\* mime type of the encoder come in, the name is built once.
NameInit ==
    /\ processedFiles = <<>>
    /\ nextFile = 1
    /\ processing = FALSE
    /\ selectedFormat = DefaultConfig.selectedFormat
    /\ resize = DefaultConfig.resize
    /\ runs = <<>>
    /\ urlsCreated = 0
    /\ revoked = {}
    /\ phase = "constructed"
    /\ app = NoApp
    /\ \E prefix \in AffixTexts, suffix \in AffixTexts, name \in FileNames, mimeType \in MimeTypes :
           call = [op |-> "name", output |-> [prefix |-> prefix, suffix |-> suffix],
                   name |-> name, mimeType |-> mimeType, pc |-> "compressed", outputName |-> <<>>]

NameOutput ==
    /\ call.op = "name"
    /\ call.pc = "compressed"
    /\ call' = [call EXCEPT !.pc = "named",
                            !.outputName = <<outputNameOf(call.output, call.name, call.mimeType)>>]
    /\ UNCHANGED <<processedFiles, processing, selectedFormat, resize, runs, urlsCreated, revoked,
                   nextFile, phase, app>>

SpecName == NameInit /\ [][NameOutput]_vars

\* ------------------------------------------------ claims on the output name
\* The position of the last "." of name, 0 if there is none.
LastDot(name) ==
    IF \A k \in 1..Len(name) : name[k] # "." THEN 0
    ELSE CHOOSE k \in 1..Len(name) : name[k] = "." /\ \A j \in (k + 1)..Len(name) : name[j] # "."

\* The name without its last extension: what stands before the last ".", when
\* something stands behind it.
Stem(name) ==
    IF LastDot(name) = 0 \/ LastDot(name) = Len(name) THEN name
    ELSE SubSeq(name, 1, LastDot(name) - 1)

\* The subtype of type/subtype.
Subtype(mimeType) ==
    LET slash == CHOOSE k \in 1..Len(mimeType) : mimeType[k] = "/"
    IN  SubSeq(mimeType, slash + 1, Len(mimeType))

\* C28: the output name is prefix + (the file name without its last extension)
\* + suffix + "." + (the mime subtype of the encoder); prefix and suffix are
\* empty by default.
C28_OutputNameContract ==
    /\ DefaultConfig.output = [prefix |-> "", suffix |-> ""]
    /\ (call.op = "name" /\ call.pc = "named") =>
           call.outputName = <<call.output.prefix \o Stem(call.name) \o call.output.suffix
                                 \o <<".">> \o Subtype(call.mimeType)>>

\* a.b.c encoded as image/webp with empty prefix and suffix is named a.b.webp.
C28_Witness ==
    /\ call.op = "name" /\ call.pc = "named"
    /\ call.output = [prefix |-> <<>>, suffix |-> <<>>]
    /\ call.name = <<"a", ".", "b", ".", "c">>
    /\ call.outputName = <<<<"a", ".", "b", ".", "w", "e", "b", "p">>>>

\* ============================================================ encoder options
\* An options object that always gets the quality of the settings.
EncodeOptionsAlways(defaultOptions, quality) ==
    [k \in DOMAIN defaultOptions \cup {"quality"} |->
        IF k = "quality" THEN quality ELSE defaultOptions[k]]

\* compressFile, lines 289-295: a copy of the encoder's default options, with the
\* quality of the settings in place of the default one when there is one.
EncodeOptions(defaultOptions, quality) ==
    IF "quality" \in DOMAIN defaultOptions
    THEN [defaultOptions EXCEPT !["quality"] = quality]
    ELSE defaultOptions

\* encoder.meta.defaultOptions of encoders with and without a quality option.
DefaultOptions ==
    { [quality |-> 75, progressive |-> TRUE],
      [quality |-> 75, method |-> 4],
      [level |-> 2, interlace |-> FALSE],
      [cqLevel |-> 33, speed |-> 6] }

\* The quality slider: min 1, max 100.
MaxQuality == 100

Qualities == 1..MaxQuality

\* The encode stage examined by itself: the default options of the encoder and
\* the quality of the settings come in, the encode request is made once.
OptionsInit ==
    /\ processedFiles = <<>>
    /\ nextFile = 1
    /\ processing = FALSE
    /\ selectedFormat = DefaultConfig.selectedFormat
    /\ resize = DefaultConfig.resize
    /\ runs = <<>>
    /\ urlsCreated = 0
    /\ revoked = {}
    /\ phase = "constructed"
    /\ app = NoApp
    /\ \E defaultOptions \in DefaultOptions, quality \in Qualities :
           call = [op |-> "encode", defaultOptions |-> defaultOptions, quality |-> quality,
                   pc |-> "resized", requests |-> <<>>]

Encode ==
    /\ call.op = "encode"
    /\ call.pc = "resized"
    /\ call' = [call EXCEPT !.pc = "encoding",
                            !.requests = <<EncodeOptions(call.defaultOptions, call.quality)>>]
    /\ UNCHANGED <<processedFiles, processing, selectedFormat, resize, runs, urlsCreated, revoked,
                   nextFile, phase, app>>

SpecOptions == OptionsInit /\ [][Encode]_vars

\* C29: the quality of the settings replaces the quality of the encoder's
\* default options when they have one, and nothing else changes; when they
\* have none, the options of the encode request are the default options, and
\* the request is made all the same.
C29_QualityOnlyWhereDeclared ==
    (call.op = "encode" /\ call.pc = "encoding") =>
        /\ Len(call.requests) = 1
        /\ LET options == call.requests[1]
               defaults == call.defaultOptions
           IN  /\ DOMAIN options = DOMAIN defaults
               /\ \A k \in DOMAIN defaults \ {"quality"} : options[k] = defaults[k]
               /\ "quality" \in DOMAIN defaults => options["quality"] = call.quality
               /\ "quality" \notin DOMAIN defaults => options = defaults

\* An encoder without a quality option is asked to encode with its defaults
\* while the settings say quality 80.
C29_Witness ==
    /\ call.op = "encode" /\ call.pc = "encoding"
    /\ call.quality = 80
    /\ call.defaultOptions = [level |-> 2, interlace |-> FALSE]
    /\ call.requests = <<[level |-> 2, interlace |-> FALSE]>>

\* ============================================================ statistics
\* file.size of the File objects handed in.
FileSize(file) == 1

\* render, line 559: processedFiles.length
totalCount(files) == Len(files)

\* The callbacks of filter and reduce read f.status: a TypeError for an element
\* that is undefined (holes are skipped).
ReadsUndefined(files) == \E k \in 1..Len(files) : files[k].slot = "undefined"

\* if (f.status === 'done' && f.resultSize)
CountedAsSaved(f) ==
    f.slot = "object" /\ f.status = "done" /\ f.resultSize # <<>> /\ f.resultSize[1] # 0

\* The sum of f.original.size - f.resultSize over the elements from k on that the
\* condition lets through.
RECURSIVE SavedFrom(_, _)
SavedFrom(files, k) ==
    IF k > Len(files) THEN 0
    ELSE (IF CountedAsSaved(files[k])
          THEN FileSize(files[k].original[1]) - files[k].resultSize[1]
          ELSE 0) + SavedFrom(files, k + 1)

\* getTotalSaved(): f.original.size is a TypeError for a record without original.
getTotalSaved(files) ==
    IF \/ ReadsUndefined(files)
       \/ \E k \in 1..Len(files) : CountedAsSaved(files[k]) /\ files[k].original = <<>>
    THEN [threw |-> TRUE, value |-> 0]
    ELSE [threw |-> FALSE, value |-> SavedFrom(files, 1)]

\* --------------------------------------------------- claims on statistics
\* The indices of the Done records of the store.
DoneRecords == {k \in 1..Len(processedFiles) :
                   processedFiles[k].slot = "object" /\ processedFiles[k].status = "done"}

\* The sum of original size - result size over the records at the indices ks.
RECURSIVE SumSaved(_)
SumSaved(ks) ==
    IF ks = {} THEN 0
    ELSE LET k == CHOOSE x \in ks : TRUE
         IN  (FileSize(processedFiles[k].original[1]) - processedFiles[k].resultSize[1])
             + SumSaved(ks \ {k})

\* C30: totalCount is the number of records, doneCount the number of Done
\* records, and bytesSaved the sum of original size - result size over every
\* Done record, those with result size 0 or above the original size included.
C30_StatsCountEveryDoneRecord ==
    /\ totalCount(processedFiles) =
           Cardinality({k \in 1..Len(processedFiles) : processedFiles[k].slot = "object"})
    /\ getCompletedCount = Cardinality(DoneRecords)
    /\ (\A k \in DoneRecords : processedFiles[k].original # <<>> /\ processedFiles[k].resultSize # <<>>)
           => getTotalSaved(processedFiles) = [threw |-> FALSE, value |-> SumSaved(DoneRecords)]

\* ============================================================ a whole batch
\* decoded.width and decoded.height of the files handed in: photographs of
\* 4000 x 3000 pixels.
Decoded(file) == [width |-> 4000, height |-> 3000]

\* file.name of the files handed in.
fileName(file) ==
    IF file = 1 THEN <<"a", ".", "j", "p", "g">>
    ELSE IF file = 2 THEN <<"a", ".", "b", ".", "c">>
    ELSE <<"a", "b">>

\* encoderMap[format].meta.mimeType
mimeTypeOf(format) ==
    IF format = "webP"
    THEN <<"i", "m", "a", "g", "e", "/", "w", "e", "b", "p">>
    ELSE <<"i", "m", "a", "g", "e", "/", "j", "p", "e", "g">>

\* The resize requests a run has made for the file it is compressing when it
\* waits for workerBridge.resize, by the settings it captured.
resizeRequestsOf(run) == ResizeStage(Decoded(FileOf(run)[1]), run.cfg.resize).requests

\* The text of a record's output name; prefix and suffix are the constructor's
\* empty texts.
outputNameText(outputName) ==
    outputNameOf([prefix |-> <<>>, suffix |-> <<>>],
                 fileName(outputName.originalName), mimeTypeOf(outputName.format))

\* state.resize after the checkbox is ticked, mode 'dimensions' is chosen and
\* 1000 is typed into the width and the height field.
FitInto1000 ==
    [enabled |-> TRUE, mode |-> "dimensions", maintainAspectRatio |-> TRUE,
     scale |-> Number(100),
     width |-> parseInt(<<"1", "0", "0", "0">>), height |-> parseInt(<<"1", "0", "0", "0">>)]

\* The mounted component with no files yet, format webP and FitInto1000 chosen.
BatchInit ==
    /\ processedFiles = <<>>
    /\ nextFile = 1
    /\ processing = FALSE
    /\ selectedFormat = "webP"
    /\ resize = FitInto1000
    /\ runs = <<>>
    /\ urlsCreated = 0
    /\ revoked = {}
    /\ phase = "mounted"
    /\ call = NoCall
    /\ app = NoApp

\* Files are handed in and compressed; the settings are left as they are and
\* the batch is not cleared.
NextBatch ==
    \/ Unmount
    \/ \E n \in 1..MaxPick : onFileChange(n)
    \/ \E r \in 1..Len(runs) : DecodeResolved(r)
    \/ \E r \in 1..Len(runs) : DecodeRejected(r)
    \/ \E r \in 1..Len(runs) : ResizeResolved(r)
    \/ \E r \in 1..Len(runs) : ResizeRejected(r)
    \/ \E r \in 1..Len(runs) : EncodeResolved(r)
    \/ \E r \in 1..Len(runs) : EncodeRejected(r)

SpecBatch == BatchInit /\ [][NextBatch]_vars

\* ------------------------------------------------ claims on a whole batch
\* text ends with ending.
EndsWith(text, ending) ==
    /\ Len(text) >= Len(ending)
    /\ SubSeq(text, Len(text) - Len(ending) + 1, Len(text)) = ending

\* C27: a 4000 x 3000 image handed in with format webP, resize enabled, mode
\* dimensions, width 1000, height 1000 and maintainAspectRatio true: its record
\* is pending, then processing, then done or (when a stage fails) error and
\* nothing else; once decoded, the one resize request made for it asks for
\* exactly 1000 x 750; and when the encoder delivers, the record is done with an
\* output name ending in .webp.
C27_Fit4000x3000Into1000AsWebP ==
    [][ /\ \A k \in 1..Len(processedFiles) :
              /\ k <= Len(processedFiles')
              /\ processedFiles'[k].slot = "object"
              /\ processedFiles'[k].status # processedFiles[k].status =>
                     \/ processedFiles[k].status = "pending" /\ processedFiles'[k].status = "processing"
                     \/ processedFiles[k].status = "processing"
                            /\ processedFiles'[k].status \in {"done", "error"}
        /\ \A k \in (Len(processedFiles) + 1)..Len(processedFiles') :
              processedFiles'[k].status \in {"pending", "processing"}
        /\ \A r \in 1..Len(runs) :
              /\ DecodeResolved(r) =>
                     /\ runs'[r].pc = "resize"
                     /\ Len(resizeRequestsOf(runs'[r])) = 1
                     /\ resizeRequestsOf(runs'[r])[1].width = Exactly(1000)
                     /\ resizeRequestsOf(runs'[r])[1].height = Exactly(750)
              /\ EncodeResolved(r) =>
                     LET record == processedFiles'[runs[r].i]
                     IN  /\ processedFiles[runs[r].i].status = "processing"
                         /\ record.status = "done"
                         /\ record.outputName # <<>>
                         /\ EndsWith(outputNameText(record.outputName[1]),
                                     <<".", "w", "e", "b", "p">>)
      ]_vars

\* One image was handed in, resized and encoded: its record is done and named
\* a.webp.
C27_Witness ==
    /\ Len(processedFiles) = 1
    /\ processedFiles[1].status = "done"
    /\ processedFiles[1].original = <<1>>
    /\ outputNameText(processedFiles[1].outputName[1]) = <<"a", ".", "w", "e", "b", "p">>

\* ============================================================== downloads
\* render, lines 642-654: the download link of a row, offered for a record whose
\* status is 'done' (href and download are undefined for a record without them).
rowDownload(f) ==
    IF f.slot = "object" /\ f.status = "done"
    THEN <<[href |-> f.resultUrl, download |-> f.outputName]>>
    ELSE <<>>

\* --------------------------------------------------- claims on downloads
\* C31: Download All clicks exactly one anchor per Done record, in list order,
\* with that record's handle and output name, and none for any other record;
\* a row offers a download link only for a Done record.
C31_DownloadAllEmitsEveryDoneRecord ==
    /\ LET DoneInOrder ==
               SelectSeq([k \in 1..Len(processedFiles) |-> k],
                         LAMBDA k : processedFiles[k].slot = "object"
                                        /\ processedFiles[k].status = "done")
       IN  /\ Len(downloadAll) = Len(DoneInOrder)
           /\ \A j \in 1..Len(DoneInOrder) :
                 LET f == processedFiles[DoneInOrder[j]]
                 IN  /\ f.resultUrl = <<downloadAll[j].href>>
                     /\ f.outputName = <<downloadAll[j].download>>
    /\ \A k \in 1..Len(processedFiles) :
          processedFiles[k].slot = "object" /\ processedFiles[k].status # "done"
              => rowDownload(processedFiles[k]) = <<>>

\* ------------------------------------------------ claims on store updates
\* C32: a step in which a run writes the error or the result of the record at
\* its index i, and 'processing' for the record it goes on to, leaves the
\* length of the store as it was and every element at another index as it was,
\* also when the store was cleared during the run.
C32_UpdatesReplaceOneIndex ==
    [][\A r \in 1..Len(runs) :
          (FailureStep(r) \/ EncodeResolved(r)) =>
              /\ Len(processedFiles') = Len(processedFiles)
              /\ \A k \in 1..Len(processedFiles) :
                    (k # runs[r].i /\ ~(runs'[r].pc = "decode" /\ k = runs'[r].i))
                        => processedFiles'[k] = processedFiles[k]
      ]_vars

\* -------------------------------------------- claims on the processing flag
\* C34: state.processing is false exactly when no run of processFiles is
\* suspended inside its walk, and while it is false no record has status
\* 'processing'.
C34_ProcessingFlagMeansRunActive ==
    /\ ~processing <=> ActiveRuns = {}
    /\ ~processing =>
           \A k \in 1..Len(processedFiles) :
               processedFiles[k].slot = "object" => processedFiles[k].status # "processing"

\* ============================================================== App shell
\* src/client/initial-app/App/index.tsx.  The shell renders the intro page, the
\* single-image editor or the bulk editor inside one <file-drop> element.  Its
\* handlers run to completion and it is rendered again before the next event.
\* The start as a share target and the loading of the editor's module are left
\* out.
ROUTE_EDITOR == "/editor"
ROUTE_BULK == "/bulk"

\* location.pathname: the current entry of the session history.
pathname(a) == a.entries[a.index]

\* history.pushState(null, '', url): the entries after the current one are dropped.
pushState(a, path) ==
    [a EXCEPT !.entries = Append(SubSeq(a.entries, 1, a.index), path), !.index = a.index + 1]

\* openEditor()
openEditor(a) ==
    IF a.isEditorOpen THEN a
    ELSE [pushState(a, ROUTE_EDITOR) EXCEPT !.isEditorOpen = TRUE, !.isBulkOpen = FALSE]

\* openBulkEditor()
openBulkEditor(a) ==
    IF a.isBulkOpen THEN a
    ELSE [pushState(a, ROUTE_BULK) EXCEPT !.isBulkOpen = TRUE, !.isEditorOpen = FALSE]

\* render(): the <BulkCompress files={files!}> element is part of the output.
RendersBulk(a) == ~a.isEditorOpen /\ a.isBulkOpen /\ a.BulkCompress

\* render(): the <Intro onFile={this.onIntroPickFile}> element is part of the output.
RendersIntro(a) == ~(a.isBulkOpen /\ ~a.BulkCompress) /\ ~a.isEditorOpen /\ ~a.isBulkOpen

\* The state of the shell becomes a and the shell is rendered.  A BulkCompress
\* element that enters the output is constructed from props.files and mounted
\* (constructor, componentDidMount); one that stays receives its new props, which
\* the component never reads again; one that leaves is unmounted.  The
\* activations of an instance that was replaced write to that instance and are
\* no longer followed.  app.instances counts the instances constructed.
Rerender(a) ==
    /\ IF ~RendersBulk(app) /\ RendersBulk(a)
       THEN /\ app.instances < MaxInstances
            /\ app' = [a EXCEPT !.instances = a.instances + 1]
       ELSE app' = a
    /\ IF ~RendersBulk(app) /\ RendersBulk(a)
       THEN LET props == IF a.files = <<>> THEN <<>> ELSE a.files[1]
                files == [k \in 1..Len(props) |-> NewRecord(props[k])]
            IN  /\ phase' = "mounted"
                /\ IF Len(files) > 0
                   THEN /\ processedFiles' = WalkFiles(files, NewRun(files), 1)
                        /\ processing' = WalkProcessing(TRUE, NewRun(files), 1)
                        /\ runs' = <<WalkRun(NewRun(files), 1)>>
                   ELSE /\ processedFiles' = files
                        /\ processing' = FALSE
                        /\ runs' = <<>>
       ELSE IF RendersBulk(app) /\ ~RendersBulk(a)
       THEN /\ phase' = "unmounted"
            /\ UNCHANGED <<processedFiles, processing, runs>>
       ELSE UNCHANGED <<processedFiles, processing, runs, phase>>
    /\ UNCHANGED <<selectedFormat, resize, urlsCreated, revoked, call>>

\* The shell when the page has loaded: the intro page at "/".
AppInit ==
    /\ app = [isEditorOpen |-> FALSE, isBulkOpen |-> FALSE, file |-> <<>>, files |-> <<>>,
              BulkCompress |-> FALSE, entries |-> <<"/">>, index |-> 1, instances |-> 0]
    /\ processedFiles = <<>>
    /\ nextFile = 1
    /\ processing = FALSE
    /\ selectedFormat = DefaultConfig.selectedFormat
    /\ resize = DefaultConfig.resize
    /\ runs = <<>>
    /\ urlsCreated = 0
    /\ revoked = {}
    /\ phase = "unmounted"
    /\ call = NoCall

\* n new File objects.
NewFiles(n) == [k \in 1..n |-> nextFile + k - 1]

\* bulkCompressPromise resolves: setState({ BulkCompress: module.default }).
bulkCompressLoaded ==
    /\ ~app.BulkCompress
    /\ Rerender([app EXCEPT !.BulkCompress = TRUE])
    /\ UNCHANGED nextFile

\* onFileDrop({ files }) with n >= 1 files.
onFileDrop(n) ==
    /\ nextFile + n - 1 <= MaxFiles
    /\ Len(app.entries) < MaxEntries
    /\ IF n = 1
       THEN Rerender([openEditor(app) EXCEPT !.file = <<NewFiles(1)[1]>>, !.files = <<>>])
       ELSE Rerender([openBulkEditor(app) EXCEPT !.files = <<NewFiles(n)>>, !.file = <<>>])
    /\ nextFile' = nextFile + n

\* onIntroPickFile(file) with a File.
onIntroPickFile ==
    /\ RendersIntro(app)
    /\ nextFile <= MaxFiles
    /\ Len(app.entries) < MaxEntries
    /\ Rerender([openEditor(app) EXCEPT !.file = <<NewFiles(1)[1]>>, !.files = <<>>])
    /\ nextFile' = nextFile + 1

\* onIntroPickFile(file) with an array of n files.
onIntroPickFiles(n) ==
    /\ RendersIntro(app)
    /\ nextFile + n - 1 <= MaxFiles
    /\ Len(app.entries) < MaxEntries
    /\ Rerender([openBulkEditor(app) EXCEPT !.files = <<NewFiles(n)>>, !.file = <<>>])
    /\ nextFile' = nextFile + n

\* onPopState() after the session history has moved to entry index.
onPopState(index) ==
    /\ index \in 1..Len(app.entries)
    /\ index # app.index
    /\ LET a == [app EXCEPT !.index = index]
       IN  Rerender([a EXCEPT !.isEditorOpen = (pathname(a) = ROUTE_EDITOR),
                              !.isBulkOpen = (pathname(a) = ROUTE_BULK)])
    /\ UNCHANGED nextFile

\* The handlers of the shell, and of the bulk editor while it is shown.
NextApp ==
    \/ bulkCompressLoaded
    \/ \E n \in 1..MaxDrop : onFileDrop(n)
    \/ onIntroPickFile
    \/ \E n \in 0..MaxDrop : onIntroPickFiles(n)
    \/ \E index \in {app.index - 1, app.index + 1} : onPopState(index)
    \/ clearAll
    \/ \E r \in 1..Len(runs) : DecodeResolved(r)
    \/ \E r \in 1..Len(runs) : DecodeRejected(r)
    \/ \E r \in 1..Len(runs) : EncodeResolved(r)
    \/ \E r \in 1..Len(runs) : EncodeRejected(r)

SpecApp == AppInit /\ [][NextApp]_vars

\* ------------------------------------------------ claims on the App shell
\* C33: when the bulk editor is shown with no records (the empty state 'Drop
\* images here') and several files are dropped, the store holds after the drop one record per dropped file, in the
\* order dropped, pending or (the first) already processing, and a run of
\* processFiles is active.
C33_DropOnEmptyBulkViewAddsFiles ==
    [][\A n \in 2..MaxDrop :
          (RendersBulk(app) /\ phase = "mounted" /\ Len(processedFiles) = 0 /\ onFileDrop(n)) =>
              /\ Len(processedFiles') = n
              /\ \A k \in 1..Len(processedFiles') :
                    /\ processedFiles'[k].original = <<NewFiles(n)[k]>>
                    /\ processedFiles'[k].status \in {"pending", "processing"}
              /\ \E r \in 1..Len(runs') : runs'[r].pc \in Awaiting
      ]_vars

\* C36: the single-image editor and the bulk editor are never both open; a drop
\* or a pick of exactly one file leaves the editor open, a drop of two or more
\* files the bulk editor.
C36_EditorsExcludeEachOther ==
    [][ /\ ~(app'.isEditorOpen /\ app'.isBulkOpen)
        /\ onFileDrop(1) => app'.isEditorOpen
        /\ \A n \in 2..MaxDrop : onFileDrop(n) => app'.isBulkOpen
        /\ onIntroPickFile => app'.isEditorOpen
        /\ onIntroPickFiles(1) => app'.isEditorOpen
      ]_vars

=============================================================================
